---- MODULE Spec2Model ----
(***************************************************************************)
(* Validation and JSON round trip of the MIBiG shared entities             *)
(* (mibig/converters/shared/common.py) and of the Saccharide subtree       *)
(* (mibig/converters/shared/mibig/biosynthesis/classes/saccharide.py).     *)
(*                                                                         *)
(* The library is a set of constructors and methods without global state.  *)
(* A behaviour of the model is a caller's session: it constructs one       *)
(* entity, then calls validate(), to_json() and from_json() on it.  The    *)
(* variables hold the arguments and the outcome of each of these calls.    *)
(*                                                                         *)
(* Python values:                                                          *)
(*   str            a sequence of one-character strings                    *)
(*   int            an integer (Python integers do not overflow)           *)
(*   None           NoneVal                                                *)
(*   list           a sequence                                             *)
(*   dict           a function whose DOMAIN is the set of keys             *)
(*   **kwargs       a function whose DOMAIN is the set of keywords given   *)
(*   a call         Returned(value) or Raised(exception, errors)           *)
(***************************************************************************)
EXTENDS Integers, Sequences, FiniteSets, TLC

VARIABLES entity, made, checked, json, back

vars == <<entity, made, checked, json, back>>

(***************************************************************************)
(* Bounds of the explored inputs.                                          *)
(***************************************************************************)
MaxCoord == 3
MaxSeqLen == 2
MaxTransLen == 1

(***************************************************************************)
(* Python values and call outcomes.                                        *)
(***************************************************************************)
NoneVal == [t |-> "None"]

IsNone(v) == v.t = "None"

Returned(v) == [status |-> "returned", value |-> v]

Raised(exc, errs) == [status |-> "raised", exc |-> exc, errors |-> errs]

NotCalled == [status |-> "not called"]

NoKwargs == [k \in {} |-> NoneVal]

\* a keyword parameter with a default: the keyword's value when given
KwGet(kwargs, k, default) == IF k \in DOMAIN kwargs THEN kwargs[k] ELSE default

\* **kwargs of a callee that binds the keywords in `named` to parameters
KwRest(kwargs, named) == [k \in (DOMAIN kwargs) \ named |-> kwargs[k]]

ValidationErrorInfo(field, message, args) ==
    [field |-> field, message |-> message, args |-> args]

\* class QualityLevel(Enum)
QualityLevel(name) == [t |-> "QualityLevel", name |-> name]

QUESTIONABLE == QualityLevel("QUESTIONABLE")

QualityLevels == {QualityLevel(n) : n \in {"QUESTIONABLE", "LOW", "MEDIUM", "HIGH"}}

(***************************************************************************)
(* The collaborators Record and CDS (mibig.utils).  A Record exposes       *)
(* seq_len and get_cds(gene_id), a CDS exposes translation_length.  They   *)
(* are plain objects: an instance is true in a boolean context.            *)
(***************************************************************************)
CDS(translation_length) == [t |-> "CDS", translation_length |-> translation_length]

Record(seq_len, cdses) == [t |-> "Record", seq_len |-> seq_len, cdses |-> cdses]

\* record.get_cds(gene_id): the CDS of that name, or None
get_cds(record, gene_id) ==
    IF gene_id \in DOMAIN record.cdses THEN record.cdses[gene_id] ELSE NoneVal

\* bool(x) of a Record, a CDS, a QualityLevel or None
Truthy(v) == ~IsNone(v)

(***************************************************************************)
(* class Location                                                          *)
(***************************************************************************)
MsgFromPositive == "From coordinate must be positive"
MsgToPositive == "To coordinate must be positive"
MsgFromAfterTo == "Location.from {begin} must be less than Location.to {end}"
MsgFromSeqLen == "Location.from must be less than the sequence length"
MsgToSeqLen == "Location.to must be less than the sequence length"
MsgToTransLen == "Location.to must be less than the translation length"

Location(begin, end) == [t |-> "Location", begin |-> begin, end |-> end]

\* Location.validate without the begin > end rule
Location_validate_unordered(self, kwargs) ==
    LET record == KwGet(kwargs, "record", NoneVal)
        cds == KwGet(kwargs, "cds", NoneVal)
        quality == KwGet(kwargs, "quality", NoneVal)
        e1 == IF self.begin < 0 /\ quality # QUESTIONABLE
              THEN <<ValidationErrorInfo("Location.from", MsgFromPositive, <<>>)>>
              ELSE <<>>
        e2 == IF self.end < 0 /\ quality # QUESTIONABLE
              THEN <<ValidationErrorInfo("Location,to", MsgToPositive, <<>>)>>
              ELSE <<>>
        e4 == IF Truthy(record) /\ ~(quality = QUESTIONABLE)
                 /\ self.begin > record.seq_len
              THEN <<ValidationErrorInfo("Location.from", MsgFromSeqLen, <<>>)>>
              ELSE <<>>
        e5 == IF Truthy(record) /\ ~(quality = QUESTIONABLE)
                 /\ self.end > record.seq_len
              THEN <<ValidationErrorInfo("Location.to", MsgToSeqLen, <<>>)>>
              ELSE <<>>
        e6 == IF Truthy(cds) /\ self.end > cds.translation_length
              THEN <<ValidationErrorInfo("Location.to", MsgToTransLen, <<>>)>>
              ELSE <<>>
    IN  e1 \o e2 \o e4 \o e5 \o e6

\* Location.validate with the sequence-length rule applied at every quality
Location_validate_strict(self, kwargs) ==
    LET record == KwGet(kwargs, "record", NoneVal)
        cds == KwGet(kwargs, "cds", NoneVal)
        quality == KwGet(kwargs, "quality", NoneVal)
        e1 == IF self.begin < 0 /\ quality # QUESTIONABLE
              THEN <<ValidationErrorInfo("Location.from", MsgFromPositive, <<>>)>>
              ELSE <<>>
        e2 == IF self.end < 0 /\ quality # QUESTIONABLE
              THEN <<ValidationErrorInfo("Location,to", MsgToPositive, <<>>)>>
              ELSE <<>>
        e3 == IF self.begin > self.end
              THEN <<ValidationErrorInfo("Location", MsgFromAfterTo,
                                         <<self.begin, self.end>>)>>
              ELSE <<>>
        e4 == IF Truthy(record) /\ self.begin > record.seq_len
              THEN <<ValidationErrorInfo("Location.from", MsgFromSeqLen, <<>>)>>
              ELSE <<>>
        e5 == IF Truthy(record) /\ self.end > record.seq_len
              THEN <<ValidationErrorInfo("Location.to", MsgToSeqLen, <<>>)>>
              ELSE <<>>
        e6 == IF Truthy(cds) /\ self.end > cds.translation_length
              THEN <<ValidationErrorInfo("Location.to", MsgToTransLen, <<>>)>>
              ELSE <<>>
    IN  e1 \o e2 \o e3 \o e4 \o e5 \o e6

\* Location.validate(record=None, cds=None, quality=None, **kwargs)
Location_validate(self, kwargs) ==
    LET record == KwGet(kwargs, "record", NoneVal)
        cds == KwGet(kwargs, "cds", NoneVal)
        quality == KwGet(kwargs, "quality", NoneVal)
        e1 == IF self.begin < 0 /\ quality # QUESTIONABLE
              THEN <<ValidationErrorInfo("Location.from", MsgFromPositive, <<>>)>>
              ELSE <<>>
        e2 == IF self.end < 0 /\ quality # QUESTIONABLE
              THEN <<ValidationErrorInfo("Location,to", MsgToPositive, <<>>)>>
              ELSE <<>>
        e3 == IF self.begin > self.end
              THEN <<ValidationErrorInfo("Location", MsgFromAfterTo,
                                         <<self.begin, self.end>>)>>
              ELSE <<>>
        e4 == IF Truthy(record) /\ ~(quality = QUESTIONABLE)
                 /\ self.begin > record.seq_len
              THEN <<ValidationErrorInfo("Location.from", MsgFromSeqLen, <<>>)>>
              ELSE <<>>
        e5 == IF Truthy(record) /\ ~(quality = QUESTIONABLE)
                 /\ self.end > record.seq_len
              THEN <<ValidationErrorInfo("Location.to", MsgToSeqLen, <<>>)>>
              ELSE <<>>
        e6 == IF Truthy(cds) /\ self.end > cds.translation_length
              THEN <<ValidationErrorInfo("Location.to", MsgToTransLen, <<>>)>>
              ELSE <<>>
    IN  e1 \o e2 \o e3 \o e4 \o e5 \o e6

\* the tail of every validating constructor:
\*   errors = self.validate(...); if errors: raise ValidationError(errors)
RaiseIfErrors(self, outcome) ==
    IF outcome.status = "raised" THEN outcome
    ELSE IF outcome.value # <<>> THEN Raised("ValidationError", outcome.value)
    ELSE Returned(self)

\* Location.__init__(begin, end, validate=True, **kwargs)
Location_init(begin, end, validate, kwargs) ==
    LET self == Location(begin, end)
    IN  IF ~validate THEN Returned(self)
        ELSE RaiseIfErrors(self, Returned(Location_validate(self, kwargs)))

(***************************************************************************)
(* Strings and the regular expressions of re.match.                        *)
(***************************************************************************)
Digit == {"0", "1", "2", "3", "4", "5", "6", "7", "8", "9"}

Lower == {"a", "b", "c", "d", "e", "f", "g", "h", "i", "j", "k", "l", "m",
          "n", "o", "p", "q", "r", "s", "t", "u", "v", "w", "x", "y", "z"}

Upper == {"A", "B", "C", "D", "E", "F", "G", "H", "I", "J", "K", "L", "M",
          "N", "O", "P", "Q", "R", "S", "T", "U", "V", "W", "X", "Y", "Z"}

AlNum == Digit \cup Lower \cup Upper

\* \b: the characters of \w
WordChar == AlNum \cup {"_"}

Newline == "\n"

\* s[a..b], empty when a > b
Slice(s, a, b) == [i \in 1 .. (IF b >= a THEN b - a + 1 ELSE 0) |-> s[a + i - 1]]

AllIn(s, a, b, class) == \A i \in a .. b : s[i] \in class

StartsWith(s, prefix) ==
    Len(s) >= Len(prefix) /\ Slice(s, 1, Len(prefix)) = prefix

\* the positions at which a final "$" matches: the end of the string, and the
\* place before a newline that ends the string
DollarEnds(s) ==
    {Len(s)} \cup (IF Len(s) > 0 /\ s[Len(s)] = Newline THEN {Len(s) - 1} ELSE {})

\* the first position of c in s, 0 when s does not hold c
Find(s, c) ==
    IF \E i \in 1 .. Len(s) : s[i] = c
    THEN CHOOSE i \in 1 .. Len(s) : s[i] = c /\ \A j \in 1 .. (i - 1) : s[j] # c
    ELSE 0

(***************************************************************************)
(* class Citation                                                          *)
(***************************************************************************)
STR_pubmed == <<"p", "u", "b", "m", "e", "d">>
STR_doi == <<"d", "o", "i">>
STR_patent == <<"p", "a", "t", "e", "n", "t">>
STR_url == <<"u", "r", "l">>
STR_http == <<"h", "t", "t", "p">>
STR_colon_slashes == <<":", "/", "/">>
STR_www == <<"w", "w", "w">>
STR_ten_dot == <<"1", "0", ".">>

\* VALID_PATTERNS["pubmed"] = ^(\d+)$
MatchPubmed(s) ==
    \E n \in DollarEnds(s) : n >= 1 /\ AllIn(s, 1, n, Digit)

DoiMinDigits == 4
DoiMaxDigits == 9

DoiClass == {"-", ".", "_", ";", "(", ")", "/", ":"} \cup AlNum

\* VALID_PATTERNS["doi"] = ^10\.\d{4,9}/[-\._;()/:a-zA-Z0-9]+$
MatchDoi(s) ==
    /\ StartsWith(s, STR_ten_dot)
    /\ \E k \in DoiMinDigits .. DoiMaxDigits, n \in DollarEnds(s) :
          /\ n >= 3 + k + 2
          /\ AllIn(s, 4, 3 + k, Digit)
          /\ s[3 + k + 1] = "/"
          /\ AllIn(s, 3 + k + 2, n, DoiClass)

\* VALID_PATTERNS["patent"] = ^(.+)$
MatchPatent(s) ==
    \E n \in DollarEnds(s) : n >= 1 /\ \A i \in 1 .. n : s[i] # Newline

UrlHostClass == {"-", "@", ":", "%", ".", "_", "+", "~", "#", "="} \cup AlNum

UrlPathClass == {"-", "@", ":", "%", "_", "+", ".", "~", "#", "?", "&", "/", "="} \cup AlNum

UrlHostMin == 2
UrlHostMax == 256
UrlTldMin == 2
UrlTldMax == 6

\* VALID_PATTERNS["url"] =
\*   ^https?:\/\/(www\\.)?[-a-zA-Z0-9@:%._\+~#=]{2,256}\.[a-z]{2,6}\b([-a-zA-Z0-9@:%_\+.~#?&//=]*)$
\* "(www\\.)?" is: www, a backslash, any character but a newline
MatchUrl(s) ==
    /\ StartsWith(s, STR_http)
    /\ \E p0 \in {4 + Len(STR_colon_slashes), 5 + Len(STR_colon_slashes)} :
          /\ p0 <= Len(s)
          /\ p0 = 5 + Len(STR_colon_slashes) => s[5] = "s"
          /\ Slice(s, p0 - Len(STR_colon_slashes) + 1, p0) = STR_colon_slashes
          /\ \E p1 \in {p0, p0 + 5} :
                /\ p1 <= Len(s)
                /\ p1 = p0 + 5 =>
                      /\ Slice(s, p0 + 1, p0 + 3) = STR_www
                      /\ s[p0 + 4] = "\\"
                      /\ s[p0 + 5] # Newline
                /\ \E dot \in (p1 + 1) .. Len(s), tld \in UrlTldMin .. UrlTldMax,
                      n \in DollarEnds(s) :
                      /\ dot - 1 - p1 \in UrlHostMin .. UrlHostMax
                      /\ AllIn(s, p1 + 1, dot - 1, UrlHostClass)
                      /\ s[dot] = "."
                      /\ dot + tld <= n
                      /\ AllIn(s, dot + 1, dot + tld, Lower)
                      /\ dot + tld < Len(s) => s[dot + tld + 1] \notin WordChar
                      /\ AllIn(s, dot + tld + 1, n, UrlPathClass)

\* Citation.VALID_PATTERNS.keys()
VALID_PATTERNS == {STR_pubmed, STR_doi, STR_patent, STR_url}

\* re.match(self.VALID_PATTERNS[database], value)
MatchCitation(database, value) ==
    CASE database = STR_pubmed -> MatchPubmed(value)
      [] database = STR_doi -> MatchDoi(value)
      [] database = STR_patent -> MatchPatent(value)
      [] database = STR_url -> MatchUrl(value)

MsgInvalidDatabase == "Invalid database type {database!r}"
MsgInvalidValue == "Invalid value {value!r} for database {database!r}"

Citation(database, value) == [t |-> "Citation", database |-> database, value |-> value]

\* Citation.validate()
Citation_validate(self) ==
    IF self.database \notin VALID_PATTERNS
    THEN <<ValidationErrorInfo("citation", MsgInvalidDatabase, <<self.database>>)>>
    ELSE IF ~MatchCitation(self.database, self.value)
    THEN <<ValidationErrorInfo("citation", MsgInvalidValue,
                               <<self.value, self.database>>)>>
    ELSE <<>>

\* Citation.__init__(database, value, validate=True)
Citation_init(database, value, validate) ==
    LET self == Citation(database, value)
    IN  IF ~validate THEN Returned(self)
        ELSE RaiseIfErrors(self, Returned(Citation_validate(self)))

\* Citation.to_json(): f"{self.database}:{self.value}"
Citation_to_json(self) == self.database \o <<":">> \o self.value

\* raw.split(":", 1): the text before the first colon and the text after it
SplitFirstColon(raw) ==
    <<Slice(raw, 1, Find(raw, ":") - 1), Slice(raw, Find(raw, ":") + 1, Len(raw))>>

\* Citation.from_json(raw): database, value = raw.split(":", 1);
\* unpacking a split without a colon raises ValueError
Citation_from_json(raw) ==
    IF Find(raw, ":") = 0 THEN Raised("ValueError", <<>>)
    ELSE Citation_init(SplitFirstColon(raw)[1], SplitFirstColon(raw)[2], TRUE)

\* Citation.__hash__(): hash((self.database, self.value))
Citation_hash(self) == <<"hash", <<self.database, self.value>>>>

\* a reference to a new instance: the object and its identity
Ref(oid, outcome) ==
    IF outcome.status = "returned" THEN outcome @@ ("oid" :> oid) ELSE outcome

\* a == b for two Citation references: the class defines __lt__ and __hash__
\* but no __eq__, and functools.total_ordering adds none, so == is
\* object.__eq__, the identity of the two operands
Citation_eq(a, b) == a.oid = b.oid

(***************************************************************************)
(* Lists of children.                                                      *)
(***************************************************************************)
\* the concatenation of a list of lists: what a for loop of errors.extend(...)
\* over the children builds
RECURSIVE Flatten(_)
Flatten(lists) ==
    IF lists = <<>> THEN <<>>
    ELSE Head(lists) \o Flatten(Tail(lists))

\* the lists over pool of length at most n
ListsUpTo(pool, n) == UNION {[1 .. k -> pool] : k \in 0 .. n}

(***************************************************************************)
(* class SubmitterID                                                       *)
(***************************************************************************)
SubmitterIDLength == 24

SubmitterID(inner) == [t |-> "SubmitterID", inner |-> inner]

\* str.isalnum()
isalnum(str) == Len(str) > 0 /\ AllIn(str, 1, Len(str), AlNum)

\* str.isdigit()
isdigit(str) == Len(str) > 0 /\ AllIn(str, 1, Len(str), Digit)

\* SubmitterID.validate()
SubmitterID_validate(self) ==
    IF Len(self.inner) # SubmitterIDLength
    THEN <<ValidationErrorInfo("submitter", "invalid length", <<>>)>>
    ELSE IF ~isalnum(self.inner)
    THEN <<ValidationErrorInfo("submitter", "invalid characters", <<>>)>>
    ELSE <<>>

\* SubmitterID.__post_init__(_validate=True)
SubmitterID_init(inner, validate) ==
    LET self == SubmitterID(inner)
    IN  IF ~validate THEN Returned(self)
        ELSE RaiseIfErrors(self, Returned(SubmitterID_validate(self)))

(***************************************************************************)
(* class ReleaseEntry                                                      *)
(***************************************************************************)
ReleaseEntry(contributors, reviewers, date, comment) ==
    [t |-> "ReleaseEntry", contributors |-> contributors, reviewers |-> reviewers,
     date |-> date, comment |-> comment]

\* ReleaseEntry.validate()
ReleaseEntry_validate(self) ==
    (IF self.contributors = <<>>
     THEN <<ValidationErrorInfo("contributors", "contributor list cannot be empty", <<>>)>>
     ELSE <<>>)
    \o Flatten([i \in 1 .. Len(self.contributors) |-> SubmitterID_validate(self.contributors[i])])
    \o Flatten([i \in 1 .. Len(self.reviewers) |-> SubmitterID_validate(self.reviewers[i])])

\* ReleaseEntry.__init__(contributors, reviewers, date, comment, validate=True)
ReleaseEntry_init(contributors, reviewers, date, comment, validate) ==
    LET self == ReleaseEntry(contributors, reviewers, date, comment)
    IN  IF ~validate THEN Returned(self)
        ELSE RaiseIfErrors(self, Returned(ReleaseEntry_validate(self)))

(***************************************************************************)
(* class ReleaseVersion                                                    *)
(***************************************************************************)
STR_next == <<"n", "e", "x", "t">>

ReleaseVersion(value) == [t |-> "ReleaseVersion", inner |-> value]

\* str.split("."): the parts between the dots
RECURSIVE SplitDots(_)
SplitDots(str) ==
    IF Find(str, ".") = 0 THEN <<str>>
    ELSE <<Slice(str, 1, Find(str, ".") - 1)>>
         \o SplitDots(Slice(str, Find(str, ".") + 1, Len(str)))

MsgInvalidVersion == "invalid version {inner!r}"

\* ReleaseVersion.validate()
ReleaseVersion_validate(self) ==
    IF self.inner = STR_next THEN <<>>
    ELSE IF \E i \in 1 .. Len(SplitDots(self.inner)) : ~isdigit(SplitDots(self.inner)[i])
    THEN <<ValidationErrorInfo("release version", MsgInvalidVersion, <<self.inner>>)>>
    ELSE <<>>

\* ReleaseVersion.__init__(value, validate=True)
ReleaseVersion_init(value, validate) ==
    LET self == ReleaseVersion(value)
    IN  IF ~validate THEN Returned(self)
        ELSE RaiseIfErrors(self, Returned(ReleaseVersion_validate(self)))

\* ReleaseVersion.__str__()
ReleaseVersion_str(self) == self.inner

(***************************************************************************)
(* class Release                                                           *)
(***************************************************************************)
MsgReleaseDate == "Release date must be provided if version is not 'next'"

Release(version, date, entries) ==
    [t |-> "Release", version |-> version, date |-> date, entries |-> entries]

\* Release.validate() asking for a date whatever the version
Release_validate_no_sentinel(self) ==
    ReleaseVersion_validate(self.version)
    \o (IF IsNone(self.date)
        THEN <<ValidationErrorInfo("Release", MsgReleaseDate, <<>>)>>
        ELSE <<>>)
    \o Flatten([i \in 1 .. Len(self.entries) |-> ReleaseEntry_validate(self.entries[i])])

\* Release.validate()
Release_validate(self) ==
    ReleaseVersion_validate(self.version)
    \o (IF IsNone(self.date) /\ ReleaseVersion_str(self.version) # STR_next
        THEN <<ValidationErrorInfo("Release", MsgReleaseDate, <<>>)>>
        ELSE <<>>)
    \o Flatten([i \in 1 .. Len(self.entries) |-> ReleaseEntry_validate(self.entries[i])])

\* Release.__init__(version, date, entries, validate=True): the constructor
\* ends after "if not validate: return" and never calls validate()
Release_init(version, date, entries, validate) ==
    LET self == Release(version, date, entries)
    IN  IF ~validate THEN Returned(self)
        ELSE Returned(self)

(***************************************************************************)
(* class ChangeLog                                                         *)
(***************************************************************************)
ChangeLog(releases) == [t |-> "ChangeLog", releases |-> releases]

\* ChangeLog.validate()
ChangeLog_validate(self) == Flatten([i \in 1 .. Len(self.releases) |-> Release_validate(self.releases[i])])

\* ChangeLog.__init__(releases, validate=True)
ChangeLog_init(releases, validate) ==
    LET self == ChangeLog(releases)
    IN  IF ~validate THEN Returned(self)
        ELSE RaiseIfErrors(self, Returned(ChangeLog_validate(self)))

(***************************************************************************)
(* Calls that may raise.  A method that raises ends its caller too: the    *)
(* first child that raises decides the outcome of a loop.                  *)
(***************************************************************************)
AnyRaised(outcomes) == \E i \in 1 .. Len(outcomes) : outcomes[i].status = "raised"

FirstRaised(outcomes) ==
    outcomes[CHOOSE i \in 1 .. Len(outcomes) :
                /\ outcomes[i].status = "raised"
                /\ \A j \in 1 .. (i - 1) : outcomes[j].status # "raised"]

\* errors.extend(call) for each call in turn
ExtendEach(outcomes) ==
    IF AnyRaised(outcomes) THEN FirstRaised(outcomes)
    ELSE Returned(Flatten([i \in 1 .. Len(outcomes) |-> outcomes[i].value]))

\* [call for x in list], and the evaluation of the arguments of a call
Collect(outcomes) ==
    IF AnyRaised(outcomes) THEN FirstRaised(outcomes)
    ELSE Returned([i \in 1 .. Len(outcomes) |-> outcomes[i].value])

\* raw[key] of a dict
Item(raw, key) ==
    IF key \in DOMAIN raw THEN Returned(raw[key]) ELSE Raised("KeyError", <<>>)

\* raw.get(key, default) of a dict
Get(raw, key, default) == IF key \in DOMAIN raw THEN raw[key] ELSE default

EmptyDict == [k \in {} |-> NoneVal]

(***************************************************************************)
(* class Smiles                                                            *)
(***************************************************************************)
SmilesClass ==
    {"[", "]", "@", "(", ")", "=", "/", "\\", "#", "+", ".", "%", "*", "-"} \cup AlNum

\* re.match(r"^[\[\]a-zA-Z0-9\@()=\/\\#+.%*-]+$", value)
MatchSmiles(value) ==
    \E n \in DollarEnds(value) : n >= 1 /\ AllIn(value, 1, n, SmilesClass)

Smiles(value) == [t |-> "Smiles", value |-> value]

MsgInvalidSmiles == "Invalid value {value!r}"

\* Smiles.validate(): the message of the error is f"Invalid value
\* {self.value:r}"; "r" is no format code of str, so formatting the message
\* raises ValueError before the error is appended
Smiles_validate(self) ==
    IF ~MatchSmiles(self.value) THEN Raised("ValueError", <<>>)
    ELSE Returned(<<>>)

\* Smiles.__init__(value, validate=True)
Smiles_init(value, validate) ==
    LET self == Smiles(value)
    IN  IF ~validate THEN Returned(self)
        ELSE RaiseIfErrors(self, Smiles_validate(self))

\* Smiles.from_json(raw)
Smiles_from_json(raw) == Smiles_init(raw, TRUE)

\* Smiles.to_json()
Smiles_to_json(self) == self.value

(***************************************************************************)
(* classes NovelGeneId and GeneId                                          *)
(***************************************************************************)
\* mibig.utils.INVALID_CHARS: the characters a gene id may not hold
INVALID_CHARS == {" ", "\t", Newline}

MsgGeneEmpty == "Gene id cannot be empty"
MsgGeneInvalidChars == "Gene id {inner!r} contains invalid characters"
MsgGeneNotFound == "Gene id {inner!r} not found in record"

GeneId(inner) == [t |-> "GeneId", inner |-> inner]

\* NovelGeneId.validate(**kwargs)
NovelGeneId_validate(self) ==
    (IF self.inner = <<>>
     THEN <<ValidationErrorInfo("gene_id", MsgGeneEmpty, <<>>)>>
     ELSE <<>>)
    \o (IF \E i \in 1 .. Len(self.inner) : self.inner[i] \in INVALID_CHARS
        THEN <<ValidationErrorInfo("gene_id", MsgGeneInvalidChars, <<self.inner>>)>>
        ELSE <<>>)

\* GeneId.validate(record=None, **kwargs)
GeneId_validate(self, kwargs) ==
    LET record == KwGet(kwargs, "record", NoneVal)
    IN  NovelGeneId_validate(self)
        \o (IF Truthy(record) /\ ~Truthy(get_cds(record, self.inner))
            THEN <<ValidationErrorInfo("gene_id", MsgGeneNotFound, <<self.inner>>)>>
            ELSE <<>>)

\* GeneId(inner, validate=True, **kwargs): NovelGeneId.__init__
GeneId_init(inner, validate, kwargs) ==
    LET self == GeneId(inner)
    IN  IF ~validate THEN Returned(self)
        ELSE RaiseIfErrors(self, Returned(GeneId_validate(self, kwargs)))

\* GeneId.from_json(raw, **kwargs)
GeneId_from_json(raw, kwargs) == GeneId_init(raw, TRUE, kwargs)

\* GeneId.to_json()
GeneId_to_json(self) == self.inner

(***************************************************************************)
(* validate_citation_list                                                  *)
(***************************************************************************)
MsgEmptyCitations == "citation list cannot be empty at quality level {quality}"

\* str(quality) in the message
Quality_str(quality) ==
    IF IsNone(quality) THEN <<"None">> ELSE <<"QualityLevel.", quality.name>>

\* validate_citation_list(citations, field=None, quality=None)
validate_citation_list(citations, field, quality) ==
    (IF quality # QUESTIONABLE /\ citations = <<>>
     THEN <<ValidationErrorInfo(IF IsNone(field) THEN "Citation" ELSE field.s,
                                MsgEmptyCitations, Quality_str(quality))>>
     ELSE <<>>)
    \o Flatten([i \in 1 .. Len(citations) |-> Citation_validate(citations[i])])

\* [Citation.from_json(c) for c in raw.get("references", [])]
References_from_json(raw) ==
    LET list == Get(raw, "references", <<>>)
    IN  Collect([i \in 1 .. Len(list) |-> Citation_from_json(list[i])])

\* [c.to_json() for c in self.references]
References_to_json(references) ==
    [i \in 1 .. Len(references) |-> Citation_to_json(references[i])]

(***************************************************************************)
(* class GTEvidence                                                        *)
(***************************************************************************)
\* GTEvidence.VALID_METHODS; a method name is only compared, never looked
\* into, and is kept as one piece of text
VALID_METHODS ==
    { <<"Sequence-based prediction">>,
      <<"Structure-based inference">>,
      <<"Knock-out construct">>,
      <<"Activity assay">> }

MsgInvalidMethod == "Invalid method: {method}"

GTEvidence(method, references) ==
    [t |-> "GTEvidence", method |-> method, references |-> references]

\* GTEvidence.validate()
GTEvidence_validate(self) ==
    (IF self.method \notin VALID_METHODS
     THEN <<ValidationErrorInfo("GTEvidence.method", MsgInvalidMethod, <<self.method>>)>>
     ELSE <<>>)
    \o validate_citation_list(self.references, NoneVal, NoneVal)

\* evidence.validate(**kwargs): the method takes no keyword, a call with one
\* raises TypeError
GTEvidence_validate_call(self, kwargs) ==
    IF DOMAIN kwargs # {} THEN Raised("TypeError", <<>>)
    ELSE Returned(GTEvidence_validate(self))

\* GTEvidence.__init__(method, references, validate=True)
GTEvidence_init(method, references, validate) ==
    LET self == GTEvidence(method, references)
    IN  IF ~validate THEN Returned(self)
        ELSE RaiseIfErrors(self, Returned(GTEvidence_validate(self)))

\* GTEvidence.from_json(raw)
GTEvidence_from_json(raw) ==
    LET method == Item(raw, "method")
        references == References_from_json(raw)
    IN  IF method.status = "raised" THEN method
        ELSE IF references.status = "raised" THEN references
        ELSE GTEvidence_init(method.value, references.value, TRUE)

\* GTEvidence.to_json()
GTEvidence_to_json(self) ==
    [method |-> self.method, references |-> References_to_json(self.references)]

(***************************************************************************)
(* class Glycosyltransferase                                               *)
(***************************************************************************)
Glycosyltransferase(gene, evidence, specificity) ==
    [t |-> "Glycosyltransferase", gene |-> gene, evidence |-> evidence,
     specificity |-> specificity]

\* Glycosyltransferase.validate(**kwargs)
Glycosyltransferase_validate(self, kwargs) ==
    ExtendEach(
        <<Returned(GeneId_validate(self.gene, kwargs))>>
        \o [i \in 1 .. Len(self.evidence) |-> GTEvidence_validate_call(self.evidence[i], NoKwargs)]
        \o (IF Truthy(self.specificity) THEN <<Smiles_validate(self.specificity)>> ELSE <<>>))

\* Glycosyltransferase.__init__(gene, evidence, specificity, validate=True, **kwargs)
Glycosyltransferase_init(gene, evidence, specificity, validate, kwargs) ==
    LET self == Glycosyltransferase(gene, evidence, specificity)
    IN  IF ~validate THEN Returned(self)
        ELSE RaiseIfErrors(self, Glycosyltransferase_validate(self, kwargs))

\* Glycosyltransferase.to_json()
Glycosyltransferase_to_json(self) ==
    [gene |-> GeneId_to_json(self.gene),
     evidence |-> [i \in 1 .. Len(self.evidence) |-> GTEvidence_to_json(self.evidence[i])]]
    @@ (IF Truthy(self.specificity)
        THEN "specificity" :> Smiles_to_json(self.specificity)
        ELSE EmptyDict)

\* Glycosyltransferase.from_json(raw, **kwargs); the arguments of cls(...) are
\* evaluated in the order written, and cls gets no keyword
Glycosyltransferase_from_json(raw, kwargs) ==
    LET rawGene == Item(raw, "gene")
        gene == IF rawGene.status = "raised" THEN rawGene
                ELSE GeneId_from_json(rawGene.value, kwargs)
        list == Get(raw, "evidence", <<>>)
        evidence == Collect([i \in 1 .. Len(list) |-> GTEvidence_from_json(list[i])])
        specificity == IF "specificity" \in DOMAIN raw
                       THEN Smiles_init(raw["specificity"], TRUE)
                       ELSE Returned(NoneVal)
    IN  IF gene.status = "raised" THEN gene
        ELSE IF evidence.status = "raised" THEN evidence
        ELSE IF specificity.status = "raised" THEN specificity
        ELSE Glycosyltransferase_init(gene.value, evidence.value, specificity.value,
                                      TRUE, NoKwargs)

(***************************************************************************)
(* class Subcluster                                                        *)
(***************************************************************************)
Subcluster(specificity, genes, references) ==
    [t |-> "Subcluster", specificity |-> specificity, genes |-> genes,
     references |-> references]

\* Subcluster.validate(**kwargs)
Subcluster_validate(self, kwargs) ==
    ExtendEach(
        <<Smiles_validate(self.specificity)>>
        \o [i \in 1 .. Len(self.genes) |-> Returned(GeneId_validate(self.genes[i], kwargs))]
        \o <<Returned(validate_citation_list(self.references, NoneVal, NoneVal))>>)

\* Subcluster.__init__(specificity, genes, references, validate=True, **kwargs)
Subcluster_init(specificity, genes, references, validate, kwargs) ==
    LET self == Subcluster(specificity, genes, references)
    IN  IF ~validate THEN Returned(self)
        ELSE RaiseIfErrors(self, Subcluster_validate(self, kwargs))

\* Subcluster.to_json()
Subcluster_to_json(self) ==
    [specificity |-> Smiles_to_json(self.specificity),
     genes |-> [i \in 1 .. Len(self.genes) |-> GeneId_to_json(self.genes[i])],
     references |-> References_to_json(self.references)]

\* Subcluster.from_json(raw, **kwargs)
Subcluster_from_json(raw, kwargs) ==
    LET rawSpecificity == Item(raw, "specificity")
        specificity == IF rawSpecificity.status = "raised" THEN rawSpecificity
                       ELSE Smiles_init(rawSpecificity.value, TRUE)
        rawGenes == Item(raw, "genes")
        genes == IF rawGenes.status = "raised" THEN rawGenes
                 ELSE Collect([i \in 1 .. Len(rawGenes.value) |->
                                  GeneId_from_json(rawGenes.value[i], kwargs)])
        references == References_from_json(raw)
    IN  IF specificity.status = "raised" THEN specificity
        ELSE IF genes.status = "raised" THEN genes
        ELSE IF references.status = "raised" THEN references
        ELSE Subcluster_init(specificity.value, genes.value, references.value,
                             TRUE, NoKwargs)

(***************************************************************************)
(* class Saccharide                                                        *)
(***************************************************************************)
\* a str that may be None
Str(s) == [t |-> "str", s |-> s]

\* bool(x) of a str or None
TruthyStr(x) == ~IsNone(x) /\ x.s # <<>>

Saccharide(subclusters, glycosyltransferases, subclass) ==
    [t |-> "Saccharide", subclass |-> subclass, subclusters |-> subclusters,
     glycosyltransferases |-> glycosyltransferases]

\* Saccharide.validate(**kwargs)
Saccharide_validate(self, kwargs) ==
    ExtendEach(
        [i \in 1 .. Len(self.subclusters) |-> Subcluster_validate(self.subclusters[i], kwargs)]
        \o [i \in 1 .. Len(self.glycosyltransferases) |->
               Glycosyltransferase_validate(self.glycosyltransferases[i], kwargs)])

\* Saccharide.__init__(subclusters, glycosyltransferases, subclass=None,
\*                     validate=True, **kwargs)
Saccharide_init(subclusters, glycosyltransferases, subclass, validate, kwargs) ==
    LET self == Saccharide(subclusters, glycosyltransferases, subclass)
    IN  IF ~validate THEN Returned(self)
        ELSE RaiseIfErrors(self, Saccharide_validate(self, kwargs))

\* Saccharide.to_json() writing every key
Saccharide_to_json_all_keys(self) ==
    [glycosyltransferases |->
        [i \in 1 .. Len(self.glycosyltransferases) |->
            Glycosyltransferase_to_json(self.glycosyltransferases[i])],
     subclass |-> self.subclass,
     subclusters |->
        [i \in 1 .. Len(self.subclusters) |-> Subcluster_to_json(self.subclusters[i])]]

\* Saccharide.to_json()
Saccharide_to_json(self) ==
    ("glycosyltransferases" :>
        [i \in 1 .. Len(self.glycosyltransferases) |->
            Glycosyltransferase_to_json(self.glycosyltransferases[i])])
    @@ (IF TruthyStr(self.subclass) THEN "subclass" :> self.subclass ELSE EmptyDict)
    @@ (IF self.subclusters # <<>>
        THEN "subclusters" :>
                [i \in 1 .. Len(self.subclusters) |-> Subcluster_to_json(self.subclusters[i])]
        ELSE EmptyDict)

\* Saccharide.from_json(raw, **kwargs)
Saccharide_from_json(raw, kwargs) ==
    LET subclass == Get(raw, "subclass", NoneVal)
        rawSubclusters == Item(raw, "subclusters")
        subclusters ==
            IF rawSubclusters.status = "raised" THEN rawSubclusters
            ELSE Collect([i \in 1 .. Len(rawSubclusters.value) |->
                             Subcluster_from_json(rawSubclusters.value[i], kwargs)])
        rawGts == Item(raw, "glycosyltransferases")
        gts == IF rawGts.status = "raised" THEN rawGts
               ELSE Collect([i \in 1 .. Len(rawGts.value) |->
                                Glycosyltransferase_from_json(rawGts.value[i], kwargs)])
    IN  IF subclusters.status = "raised" THEN subclusters
        ELSE IF gts.status = "raised" THEN gts
        ELSE Saccharide_init(subclusters.value, gts.value, subclass, TRUE, NoKwargs)

(***************************************************************************)
(* The contexts a caller passes to Location.                               *)
(***************************************************************************)
Coords == (0 - MaxCoord) .. MaxCoord

KwChoices(k, values) == {NoKwargs} \cup {(k :> v) : v \in values}

LocationKwargs ==
    {r @@ c @@ q :
        r \in KwChoices("record", {Record(n, NoKwargs) : n \in 0 .. MaxSeqLen}),
        c \in KwChoices("cds", {CDS(n) : n \in 0 .. MaxTransLen}),
        q \in KwChoices("quality", QualityLevels \cup {NoneVal})}

(***************************************************************************)
(* A session with a Location.                                                            *)
(***************************************************************************)
Init ==
    /\ entity = [cls |-> "none"]
    /\ made = NotCalled
    /\ checked = NotCalled
    /\ json = NotCalled
    /\ back = NotCalled

\* Location(begin, end, validate=..., **kwargs)
ConstructLocation ==
    /\ entity.cls = "none"
    /\ \E begin \in Coords, end \in Coords, validate \in BOOLEAN, kwargs \in LocationKwargs :
        /\ validate = FALSE => kwargs = NoKwargs
        /\ entity' = [cls |-> "Location", begin |-> begin, end |-> end,
                      validate |-> validate, kwargs |-> kwargs]
        /\ made' = Location_init(begin, end, validate, kwargs)
        /\ checked' = NotCalled
        /\ json' = NotCalled
        /\ back' = NotCalled

\* made.validate(**kwargs) on the Location just constructed
ValidateLocation ==
    /\ entity.cls = "Location"
    /\ made.status = "returned"
    /\ checked.status = "not called"
    /\ \E kwargs \in LocationKwargs :
        /\ checked' = [call |-> "validate", kwargs |-> kwargs]
                      @@ Returned(Location_validate(made.value, kwargs))
        /\ UNCHANGED <<entity, made, json, back>>

(***************************************************************************)
(* Properties of Location.                                                 *)
(***************************************************************************)
Messages(errs) == {errs[i].message : i \in 1 .. Len(errs)}

PositivityMessages == {MsgFromPositive, MsgToPositive}

SeqLenMessages == {MsgFromSeqLen, MsgToSeqLen}

\* the keyword k was given and is not None
Given(kwargs, k) == k \in DOMAIN kwargs /\ ~IsNone(kwargs[k])

IsQuestionable(kwargs) == "quality" \in DOMAIN kwargs /\ kwargs["quality"] = QUESTIONABLE

\* the rules of C5 for begin, end under the context kwargs
LocationRules(begin, end, kwargs) ==
    /\ 0 <= begin
    /\ begin <= end
    /\ Given(kwargs, "record") =>
          begin <= kwargs["record"].seq_len /\ end <= kwargs["record"].seq_len
    /\ Given(kwargs, "cds") => end <= kwargs["cds"].translation_length

ValidatingLocation ==
    entity.cls = "Location" /\ entity.validate /\ made.status # "not called"

\* C5: a Location constructed with validation at a quality other than
\* QUESTIONABLE is returned exactly when 0 <= begin <= end, both coordinates
\* are at most seq_len of a given Record and end is at most
\* translation_length of a given CDS; otherwise the constructor raises the
\* aggregate ValidationError with a non-empty list, which holds the "must be
\* less than" error whenever begin > end.
C5_LocationInvariant ==
    (ValidatingLocation /\ ~IsQuestionable(entity.kwargs)) =>
        /\ made.status = "returned"
              <=> LocationRules(entity.begin, entity.end, entity.kwargs)
        /\ made.status = "returned"
              => made.value = Location(entity.begin, entity.end)
        /\ made.status = "raised"
              => /\ made.exc = "ValidationError"
                 /\ made.errors # <<>>
                 /\ entity.begin > entity.end
                       => MsgFromAfterTo \in Messages(made.errors)

\* C5 witness: Location(3, 2, record=Record(seq_len 2)) was refused
C5_Witness ==
    /\ ValidatingLocation
    /\ ~IsQuestionable(entity.kwargs)
    /\ entity.begin > entity.end
    /\ Given(entity.kwargs, "record")
    /\ made.status = "raised"
    /\ MsgFromAfterTo \in Messages(made.errors)

\* the <<context, errors>> pairs Location.validate produced in this state at
\* quality QUESTIONABLE: the list validate() returned and the list the
\* validating constructor got (raised when non-empty)
ValidateReport ==
    IF entity.cls = "Location" /\ checked.status = "returned"
    THEN {<<checked.kwargs, checked.value>>} ELSE {}

ConstructorReport ==
    IF ValidatingLocation
    THEN {<<entity.kwargs, IF made.status = "raised" THEN made.errors ELSE <<>>>>}
    ELSE {}

QuestionableReports ==
    {r \in ValidateReport \cup ConstructorReport : IsQuestionable(r[1])}

\* C6 as stated: at quality QUESTIONABLE Location.validate reports no
\* positivity error and no bounds error, neither against the sequence length
\* nor against the translation length.
C6_Original ==
    \A r \in QuestionableReports :
        Messages(r[2]) \cap (PositivityMessages \cup SeqLenMessages \cup {MsgToTransLen}) = {}

\* C6 amended: at quality QUESTIONABLE Location.validate reports no positivity
\* error and no sequence-length error, while the translation-length rule is
\* not relaxed: its error is reported exactly when a CDS is given and
\* end > translation_length.
C6_QuestionableEscape ==
    \A r \in QuestionableReports :
        /\ Messages(r[2]) \cap (PositivityMessages \cup SeqLenMessages) = {}
        /\ MsgToTransLen \in Messages(r[2])
              <=> (Given(r[1], "cds") /\ entity.end > r[1]["cds"].translation_length)

\* C6 witness: Location(-1, 3).validate(record=Record(seq_len 2),
\* quality=QUESTIONABLE) returned no error
C6_Witness ==
    /\ entity.cls = "Location"
    /\ checked.status = "returned"
    /\ IsQuestionable(checked.kwargs)
    /\ Given(checked.kwargs, "record")
    /\ entity.begin < 0
    /\ entity.end > checked.kwargs["record"].seq_len
    /\ checked.value = <<>>

NextLocation == ConstructLocation \/ ValidateLocation

SpecLocation == Init /\ [][NextLocation]_vars

(***************************************************************************)
(* A session with a Citation.                                              *)
(***************************************************************************)
MaxValueLen == 2

StringsUpTo(alphabet, n) == UNION {[1 .. k -> alphabet] : k \in 0 .. n}

CitationAlphabet == {"1", "a", ":", Newline}

CitationExamples ==
    { <<"1", "0", ".", "1", "2", "3", "4", "/", "a", ":", "b">>,
      <<"1", "0", ".", "1", "2", "3", "/", "a", "b">>,
      <<"h", "t", "t", "p", ":", "/", "/", "a", "b", ".", "c", "c">>,
      <<"h", "t", "t", "p", "s", ":", "/", "/", "a", "b", ".", "c", "c", "/", "x", ":", "y">>,
      <<"h", "t", "t", "p", ":", "/", "/", "a", ".", "c", "c">>,
      <<"h", "t", "t", "p", "s", ":", "/", "/", "w", "w", "w", "\\", "x", "a", "b", ".", "c", "c">> }

CitationValues == StringsUpTo(CitationAlphabet, MaxValueLen) \cup CitationExamples

CitationDatabases == VALID_PATTERNS \cup {<<"i", "s", "b", "n">>}

\* c = Citation(database, value, validate=...)
ConstructCitation ==
    /\ entity.cls = "none"
    /\ \E database \in CitationDatabases, value \in CitationValues, validate \in BOOLEAN :
        /\ entity' = [cls |-> "Citation", database |-> database, value |-> value,
                      validate |-> validate]
        /\ made' = Ref(1, Citation_init(database, value, validate))
        /\ UNCHANGED <<checked, json, back>>

\* c.validate()
ValidateCitation ==
    /\ entity.cls = "Citation"
    /\ made.status = "returned"
    /\ checked.status = "not called"
    /\ checked' = Returned(Citation_validate(made.value))
    /\ UNCHANGED <<entity, made, json, back>>

\* c.to_json()
ToJsonCitation ==
    /\ entity.cls = "Citation"
    /\ made.status = "returned"
    /\ json.status = "not called"
    /\ json' = Returned(Citation_to_json(made.value))
    /\ UNCHANGED <<entity, made, checked, back>>

\* Citation.from_json(c.to_json())
FromJsonCitation ==
    /\ entity.cls = "Citation"
    /\ json.status = "returned"
    /\ back.status = "not called"
    /\ back' = Ref(made.oid + 1, Citation_from_json(json.value))
    /\ UNCHANGED <<entity, made, checked, json>>

NextCitation ==
    ConstructCitation \/ ValidateCitation \/ ToJsonCitation \/ FromJsonCitation

SpecCitation == Init /\ [][NextCitation]_vars

(***************************************************************************)
(* Properties of Citation.                                                 *)
(***************************************************************************)
ValidCitation ==
    /\ entity.cls = "Citation"
    /\ made.status = "returned"
    /\ Citation_validate(made.value) = <<>>

\* the fields of the Citation read back are those of the Citation written
SameCitationFields ==
    /\ back.status = "returned"
    /\ back.value.database = made.value.database
    /\ back.value.value = made.value.value

\* C3: for a valid Citation c, c.to_json() is database + ":" + value,
\* Citation.from_json(c.to_json()) returns a Citation with the fields of c
\* (the string is split on its first colon only) that is equal to c (==) and
\* has the hash of c.
C3_CitationRoundTrip ==
    ValidCitation =>
        /\ json.status = "returned" =>
              json.value = entity.database \o <<":">> \o entity.value
        /\ back.status # "not called" =>
              /\ SameCitationFields
              /\ Citation_hash(back.value) = Citation_hash(made.value)
              /\ Citation_eq(made, back)

\* what the code does keep of C3: the string form, the fields read back
\* (values with colons included) and the hash; the object read back is a
\* different object, which == tells apart.
CitationRoundTripFields ==
    ValidCitation =>
        /\ json.status = "returned" =>
              json.value = entity.database \o <<":">> \o entity.value
        /\ back.status # "not called" =>
              /\ SameCitationFields
              /\ Citation_hash(back.value) = Citation_hash(made.value)
              /\ ~Citation_eq(made, back)

CitationRoundTripReached ==
    /\ ValidCitation
    /\ back.status = "returned"
    /\ \E i \in 1 .. Len(entity.value) : entity.value[i] = ":"

(***************************************************************************)
(* A session with the change log family: SubmitterID, ReleaseEntry,        *)
(* ReleaseVersion, Release, ChangeLog.                                     *)
(***************************************************************************)
MaxVersionLen == 2
MaxSubmitters == 1
MaxEntries == 1
MaxReleases == 1

\* identifiers of 23, 24 and 25 characters, with and without a "-"
SubmitterIDValues ==
    {[i \in 1 .. n |-> IF i = k THEN "-" ELSE "A"] :
        n \in (SubmitterIDLength - 1) .. (SubmitterIDLength + 1), k \in 0 .. 1}

GoodSubmitter == SubmitterID([i \in 1 .. SubmitterIDLength |-> "a"])

SubmitterPool ==
    { GoodSubmitter,
      SubmitterID([i \in 1 .. SubmitterIDLength - 1 |-> "a"]),
      SubmitterID([i \in 1 .. SubmitterIDLength |-> IF i = 2 THEN "_" ELSE "a"]) }

STR_1_2_3 == <<"1", ".", "2", ".", "3">>

VersionValues ==
    StringsUpTo({"1", ".", "n"}, MaxVersionLen)
        \cup {STR_next, STR_1_2_3, <<"n", "e", "x">>, <<"1", ".", "2", ".">>}

\* datetime.date(2024, 1, 1)
ADate == [t |-> "date", year |-> 2024, month |-> 1, day |-> 1]

AComment == <<"f", "i", "x">>

EntryPool ==
    {ReleaseEntry(cs, rs, ADate, AComment) :
        cs \in ListsUpTo(SubmitterPool, MaxSubmitters),
        rs \in ListsUpTo(SubmitterPool, MaxSubmitters)}

GoodEntry == ReleaseEntry(<<GoodSubmitter>>, <<>>, ADate, AComment)

\* the releases a ChangeLog of the session is built from
ChangeLogReleases ==
    {Release(ReleaseVersion(v), d, es) :
        v \in {STR_next, STR_1_2_3, <<"1", ".", "2", ".">>},
        d \in {NoneVal, ADate},
        es \in ListsUpTo({GoodEntry, ReleaseEntry(<<>>, <<>>, ADate, AComment)},
                         MaxEntries)}

Constructed(cls, self, validate, outcome) ==
    /\ entity' = [cls |-> cls, self |-> self, validate |-> validate]
    /\ made' = outcome
    /\ UNCHANGED <<checked, json, back>>

\* SubmitterID(inner, _validate=...)
ConstructSubmitterID ==
    /\ entity.cls = "none"
    /\ \E inner \in SubmitterIDValues, validate \in BOOLEAN :
          Constructed("SubmitterID", SubmitterID(inner), validate,
                      SubmitterID_init(inner, validate))

\* ReleaseVersion(value, validate=...)
ConstructReleaseVersion ==
    /\ entity.cls = "none"
    /\ \E value \in VersionValues, validate \in BOOLEAN :
          Constructed("ReleaseVersion", ReleaseVersion(value), validate,
                      ReleaseVersion_init(value, validate))

\* ReleaseEntry(contributors, reviewers, date, comment, validate=...)
ConstructReleaseEntry ==
    /\ entity.cls = "none"
    /\ \E e \in EntryPool, validate \in BOOLEAN :
          Constructed("ReleaseEntry", e, validate,
                      ReleaseEntry_init(e.contributors, e.reviewers, e.date,
                                        e.comment, validate))

\* Release(version, date, entries, validate=...)
ConstructRelease ==
    /\ entity.cls = "none"
    /\ \E v \in VersionValues, date \in {NoneVal, ADate},
          entries \in ListsUpTo(EntryPool, MaxEntries), validate \in BOOLEAN :
          Constructed("Release", Release(ReleaseVersion(v), date, entries), validate,
                      Release_init(ReleaseVersion(v), date, entries, validate))

\* ChangeLog(releases, validate=...)
ConstructChangeLog ==
    /\ entity.cls = "none"
    /\ \E releases \in ListsUpTo(ChangeLogReleases, MaxReleases), validate \in BOOLEAN :
          Constructed("ChangeLog", ChangeLog(releases), validate,
                      ChangeLog_init(releases, validate))

ChangeLogFamily ==
    {"SubmitterID", "ReleaseVersion", "ReleaseEntry", "Release", "ChangeLog"}

\* self.validate() by the class of self
ChangeLogFamily_validate(self) ==
    CASE self.t = "SubmitterID" -> SubmitterID_validate(self)
      [] self.t = "ReleaseVersion" -> ReleaseVersion_validate(self)
      [] self.t = "ReleaseEntry" -> ReleaseEntry_validate(self)
      [] self.t = "Release" -> Release_validate(self)
      [] self.t = "ChangeLog" -> ChangeLog_validate(self)

\* made.validate() on the object just constructed
ValidateChangeLogFamily ==
    /\ entity.cls \in ChangeLogFamily
    /\ made.status = "returned"
    /\ checked.status = "not called"
    /\ checked' = Returned(ChangeLogFamily_validate(made.value))
    /\ UNCHANGED <<entity, made, json, back>>

NextChangeLog ==
    \/ ConstructSubmitterID
    \/ ConstructReleaseVersion
    \/ ConstructReleaseEntry
    \/ ConstructRelease
    \/ ConstructChangeLog
    \/ ValidateChangeLogFamily

SpecChangeLog == Init /\ [][NextChangeLog]_vars

(***************************************************************************)
(* Properties of the change log family.                                    *)
(***************************************************************************)
\* what a constructor following construct-validate-or-raise gives for self
ValidateOrRaise(self, validate, errors) ==
    IF validate /\ errors # <<>> THEN Raised("ValidationError", errors)
    ELSE Returned(self)

\* C2 (on SubmitterID, ReleaseVersion, ReleaseEntry, Release, ChangeLog): a
\* constructor called with validation enabled raises the aggregate
\* ValidationError carrying the list validate() returns when that list is
\* non-empty and returns the object when it is empty; with validation
\* suppressed it returns the object.  Release(ReleaseVersion("1.2.3"),
\* date=None, entries) with validation enabled fails.
C2_ConstructValidateOrRaise ==
    (entity.cls \in ChangeLogFamily /\ made.status # "not called") =>
        made = ValidateOrRaise(entity.self, entity.validate,
                               ChangeLogFamily_validate(entity.self))

\* the part of C2 the code keeps: every class of the family but Release
ConstructValidateOrRaiseButRelease ==
    (entity.cls \in ChangeLogFamily \ {"Release"} /\ made.status # "not called") =>
        made = ValidateOrRaise(entity.self, entity.validate,
                               ChangeLogFamily_validate(entity.self))

ValidEntries(entries) == \A i \in 1 .. Len(entries) : ReleaseEntry_validate(entries[i]) = <<>>

ValidatedRelease == entity.cls = "Release" /\ checked.status = "returned"

DateMissing(release) ==
    IsNone(release.date) /\ release.version.inner # STR_next

\* C7: Release.validate() holds the error "Release date must be provided if
\* version is not 'next'" exactly when date is None and the version string is
\* not "next"; version "next" with date None and valid entries gives no
\* error, version "1.2.3" with date None gives an error, version "1.2.3"
\* with a date and valid entries gives no error.
C7_ReleaseDateRule ==
    ValidatedRelease =>
        /\ MsgReleaseDate \in Messages(checked.value) <=> DateMissing(entity.self)
        /\ Cardinality({i \in 1 .. Len(checked.value) :
                           checked.value[i].message = MsgReleaseDate}) <= 1
        /\ (entity.self.version.inner \in {STR_next, STR_1_2_3}
              /\ ValidEntries(entity.self.entries))
              => (checked.value = <<>> <=> ~DateMissing(entity.self))
        /\ (entity.self.version.inner = STR_1_2_3 /\ IsNone(entity.self.date))
              => checked.value # <<>>

\* C7 witness: Release("next", None, [a valid entry]).validate() returned []
C7_Witness ==
    /\ ValidatedRelease
    /\ entity.self.version.inner = STR_next
    /\ IsNone(entity.self.date)
    /\ entity.self.entries # <<>>
    /\ ValidEntries(entity.self.entries)
    /\ checked.value = <<>>

(***************************************************************************)
(* A session with the Saccharide subtree: Smiles, GTEvidence,              *)
(* Glycosyltransferase, Subcluster, Saccharide.  After the construction    *)
(* the caller either validates the object or writes it and reads it back.  *)
(***************************************************************************)
MaxSmilesLen == 2
MaxGenes == 1
MaxRefs == 1
MaxEvidence == 1
MaxSubclusters == 1
MaxGTs == 1

SmilesValues == StringsUpTo({"C", "=", " "}, MaxSmilesLen)

GoodSmiles == Smiles(<<"C", "O">>)

BadSmiles == Smiles(<<"C", " ", "O">>)

\* gene "a" is a CDS of the record of the session, gene "b" is not
GenePool == {GeneId(<<"a">>), GeneId(<<"b">>)}

TheRecord == Record(MaxSeqLen, (<<"a">> :> CDS(MaxTransLen)))

GoodCitation == Citation(STR_pubmed, <<"1">>)

CitationPool == {GoodCitation, Citation(STR_pubmed, <<"a">>)}

EvidencePool ==
    {GTEvidence(m, rs) :
        m \in {<<"Activity assay">>, <<"invalid">>},
        rs \in ListsUpTo(CitationPool, MaxRefs)}

SubclusterPool ==
    {Subcluster(sp, gs, rs) :
        sp \in {GoodSmiles, BadSmiles},
        gs \in ListsUpTo(GenePool, MaxGenes),
        rs \in ListsUpTo(CitationPool, MaxRefs)}

GlycosyltransferasePool ==
    {Glycosyltransferase(g, es, sp) :
        g \in GenePool,
        es \in ListsUpTo(EvidencePool, MaxEvidence),
        sp \in {NoneVal, GoodSmiles, BadSmiles}}

\* the children a Saccharide of the session is built from
SubclusterChildren ==
    {Subcluster(sp, gs, rs) :
        sp \in {GoodSmiles, BadSmiles},
        gs \in ListsUpTo(GenePool, MaxGenes),
        rs \in {<<>>, <<GoodCitation>>}}

GlycosyltransferaseChildren ==
    {Glycosyltransferase(g, es, sp) :
        g \in GenePool,
        es \in {<<>>, <<GTEvidence(<<"Activity assay">>, <<GoodCitation>>)>>,
                <<GTEvidence(<<"Activity assay">>, <<>>)>>},
        sp \in {NoneVal, GoodSmiles, BadSmiles}}

SubclassValues == {NoneVal, Str(<<>>), Str(<<"x">>)}

\* the keywords given to validate()
ValidateKwargs ==
    {r @@ c @@ q :
        r \in KwChoices("record", {TheRecord}),
        c \in KwChoices("cds", {CDS(MaxTransLen)}),
        q \in KwChoices("quality", {QUESTIONABLE, QualityLevel("HIGH")})}

\* the keywords given to a validating constructor
ConstructorKwargs == {NoKwargs, "record" :> TheRecord, "quality" :> QUESTIONABLE}

\* the keywords given to from_json()
FromJsonKwargs == {NoKwargs, "record" :> TheRecord}

ConstructedWith(cls, self, validate, kwargs, outcome) ==
    /\ entity' = [cls |-> cls, self |-> self, validate |-> validate, kwargs |-> kwargs]
    /\ made' = outcome
    /\ UNCHANGED <<checked, json, back>>

\* Smiles(value, validate=...)
ConstructSmiles ==
    /\ entity.cls = "none"
    /\ \E value \in SmilesValues, validate \in BOOLEAN :
          ConstructedWith("Smiles", Smiles(value), validate, NoKwargs,
                          Smiles_init(value, validate))

\* GTEvidence(method, references, validate=...)
ConstructGTEvidence ==
    /\ entity.cls = "none"
    /\ \E e \in EvidencePool, validate \in BOOLEAN :
          ConstructedWith("GTEvidence", e, validate, NoKwargs,
                          GTEvidence_init(e.method, e.references, validate))

\* Glycosyltransferase(gene, evidence, specificity, validate=..., **kwargs)
ConstructGlycosyltransferase ==
    /\ entity.cls = "none"
    /\ \E g \in GlycosyltransferasePool, validate \in BOOLEAN, kwargs \in ConstructorKwargs :
          /\ validate = FALSE => kwargs = NoKwargs
          /\ ConstructedWith("Glycosyltransferase", g, validate, kwargs,
                Glycosyltransferase_init(g.gene, g.evidence, g.specificity,
                                         validate, kwargs))

\* Subcluster(specificity, genes, references, validate=..., **kwargs)
ConstructSubcluster ==
    /\ entity.cls = "none"
    /\ \E c \in SubclusterPool, validate \in BOOLEAN, kwargs \in ConstructorKwargs :
          /\ validate = FALSE => kwargs = NoKwargs
          /\ ConstructedWith("Subcluster", c, validate, kwargs,
                Subcluster_init(c.specificity, c.genes, c.references, validate, kwargs))

\* Saccharide(subclusters, glycosyltransferases, subclass, validate=..., **kwargs)
ConstructSaccharide ==
    /\ entity.cls = "none"
    /\ \E subclusters \in ListsUpTo(SubclusterChildren, MaxSubclusters),
          gts \in ListsUpTo(GlycosyltransferaseChildren, MaxGTs),
          subclass \in SubclassValues,
          validate \in BOOLEAN, kwargs \in ConstructorKwargs :
          /\ validate = FALSE => kwargs = NoKwargs
          /\ ConstructedWith("Saccharide", Saccharide(subclusters, gts, subclass),
                validate, kwargs,
                Saccharide_init(subclusters, gts, subclass, validate, kwargs))

SaccharideFamily ==
    {"Smiles", "GTEvidence", "Glycosyltransferase", "Subcluster", "Saccharide"}

\* Smiles.validate(**kwargs): the method takes no keyword
Smiles_validate_call(self, kwargs) ==
    IF DOMAIN kwargs # {} THEN Raised("TypeError", <<>>)
    ELSE Smiles_validate(self)

\* self.validate(**kwargs) by the class of self
SaccharideFamily_validate(self, kwargs) ==
    CASE self.t = "Smiles" -> Smiles_validate_call(self, kwargs)
      [] self.t = "GTEvidence" -> GTEvidence_validate_call(self, kwargs)
      [] self.t = "Glycosyltransferase" -> Glycosyltransferase_validate(self, kwargs)
      [] self.t = "Subcluster" -> Subcluster_validate(self, kwargs)
      [] self.t = "Saccharide" -> Saccharide_validate(self, kwargs)

\* self.to_json() by the class of self
SaccharideFamily_to_json(self) ==
    CASE self.t = "Smiles" -> Smiles_to_json(self)
      [] self.t = "GTEvidence" -> GTEvidence_to_json(self)
      [] self.t = "Glycosyltransferase" -> Glycosyltransferase_to_json(self)
      [] self.t = "Subcluster" -> Subcluster_to_json(self)
      [] self.t = "Saccharide" -> Saccharide_to_json(self)

\* cls.from_json(raw, **kwargs); Smiles.from_json and GTEvidence.from_json
\* take no keyword
SaccharideFamily_from_json(cls, raw, kwargs) ==
    CASE cls = "Smiles" ->
            IF DOMAIN kwargs # {} THEN Raised("TypeError", <<>>)
            ELSE Smiles_from_json(raw)
      [] cls = "GTEvidence" ->
            IF DOMAIN kwargs # {} THEN Raised("TypeError", <<>>)
            ELSE GTEvidence_from_json(raw)
      [] cls = "Glycosyltransferase" -> Glycosyltransferase_from_json(raw, kwargs)
      [] cls = "Subcluster" -> Subcluster_from_json(raw, kwargs)
      [] cls = "Saccharide" -> Saccharide_from_json(raw, kwargs)

\* made.validate(**kwargs) on the object just constructed
ValidateSaccharideFamily ==
    /\ entity.cls \in SaccharideFamily
    /\ made.status = "returned"
    /\ checked.status = "not called"
    /\ json.status = "not called"
    /\ \E kwargs \in ValidateKwargs :
          /\ checked' = [call |-> "validate", kwargs |-> kwargs]
                        @@ SaccharideFamily_validate(made.value, kwargs)
          /\ UNCHANGED <<entity, made, json, back>>

\* made.to_json()
ToJsonSaccharideFamily ==
    /\ entity.cls \in SaccharideFamily
    /\ made.status = "returned"
    /\ checked.status = "not called"
    /\ json.status = "not called"
    /\ json' = Returned(SaccharideFamily_to_json(made.value))
    /\ UNCHANGED <<entity, made, checked, back>>

\* cls.from_json(made.to_json(), **kwargs)
FromJsonSaccharideFamily ==
    /\ entity.cls \in SaccharideFamily
    /\ json.status = "returned"
    /\ back.status = "not called"
    /\ \E kwargs \in FromJsonKwargs :
          /\ back' = [call |-> "from_json", kwargs |-> kwargs]
                     @@ SaccharideFamily_from_json(entity.cls, json.value, kwargs)
          /\ UNCHANGED <<entity, made, checked, json>>

NextSaccharide ==
    \/ ConstructSmiles
    \/ ConstructGTEvidence
    \/ ConstructGlycosyltransferase
    \/ ConstructSubcluster
    \/ ConstructSaccharide
    \/ ValidateSaccharideFamily
    \/ ToJsonSaccharideFamily
    \/ FromJsonSaccharideFamily

SpecSaccharide == Init /\ [][NextSaccharide]_vars

(***************************************************************************)
(* Properties of the Saccharide subtree.                                   *)
(***************************************************************************)
Count(errs, message) ==
    Cardinality({i \in 1 .. Len(errs) : errs[i].message = message})

\* a Saccharide that was constructed with validation enabled and passed
ValidatedSaccharide ==
    entity.cls = "Saccharide" /\ entity.validate /\ made.status = "returned"

PlainFromJson == back.status # "not called" /\ back.kwargs = NoKwargs

\* C1: for a Saccharide e that passed validation at construction,
\* Saccharide.from_json(e.to_json()) returns an object with the subclass, the
\* subclusters and the glycosyltransferases of e.
C1_SaccharideRoundTrip ==
    (ValidatedSaccharide /\ PlainFromJson) =>
        /\ back.status = "returned"
        /\ back.value.subclass = made.value.subclass
        /\ back.value.subclusters = made.value.subclusters
        /\ back.value.glycosyltransferases = made.value.glycosyltransferases

\* the round trip the code does make: a Saccharide with at least one
\* subcluster whose subclass is not the empty string
SaccharideRoundTripWithSubclusters ==
    (ValidatedSaccharide /\ PlainFromJson
        /\ made.value.subclusters # <<>> /\ made.value.subclass # Str(<<>>)) =>
        /\ back.status = "returned"
        /\ back.value = made.value

\* and the ways it fails: KeyError without subclusters, None for subclass ""
SaccharideRoundTripFailures ==
    (ValidatedSaccharide /\ PlainFromJson) =>
        /\ made.value.subclusters = <<>> =>
              back.status = "raised" /\ back.exc = "KeyError"
        /\ (made.value.subclusters # <<>> /\ made.value.subclass = Str(<<>>)) =>
              back.status = "returned" /\ IsNone(back.value.subclass)

SaccharideRoundTripReached ==
    /\ ValidatedSaccharide /\ PlainFromJson
    /\ made.value.subclusters # <<>>
    /\ made.value.glycosyltransferases # <<>>
    /\ back.status = "returned"

\* the empty citation lists held by self: its own, or those of its
\* subclusters and of the evidence of its glycosyltransferases
EmptyCitationLists(self) ==
    CASE self.t \in {"Subcluster", "GTEvidence"} ->
            IF self.references = <<>> THEN 1 ELSE 0
      [] self.t = "Saccharide" ->
            Cardinality({i \in 1 .. Len(self.subclusters) :
                            self.subclusters[i].references = <<>>})
            + Cardinality({ij \in (1 .. Len(self.glycosyltransferases)) \X (1 .. MaxEvidence) :
                            /\ ij[2] <= Len(self.glycosyltransferases[ij[1]].evidence)
                            /\ self.glycosyltransferases[ij[1]].evidence[ij[2]].references = <<>>})

\* C4: validating a Subcluster or a GTEvidence, directly or through
\* Saccharide.validate(quality=...), reports no empty-citation-list error at
\* quality QUESTIONABLE and one for each empty citation list at any other
\* quality or none.
C4_QuestionableMayOmitEvidence ==
    (entity.cls \in {"Subcluster", "GTEvidence", "Saccharide"}
        /\ checked.status = "returned") =>
        Count(checked.value, MsgEmptyCitations) =
           IF IsQuestionable(checked.kwargs) THEN 0 ELSE EmptyCitationLists(entity.self)

\* what the code does: the quality never reaches validate_citation_list, every
\* empty list is reported at every quality
EmptyCitationListsAlwaysReported ==
    (entity.cls \in {"Subcluster", "GTEvidence", "Saccharide"}
        /\ checked.status = "returned") =>
        Count(checked.value, MsgEmptyCitations) = EmptyCitationLists(entity.self)

\* the keys to_json() gave a Glycosyltransferase
GlycosyltransferaseKeys(self, j) ==
    /\ DOMAIN j \subseteq {"gene", "evidence", "specificity"}
    /\ "specificity" \in DOMAIN j <=> ~IsNone(self.specificity)
    /\ ~IsNone(self.specificity) => j["specificity"] = self.specificity.value

\* C8: to_json() of a Glycosyltransferase holds "specificity" exactly when
\* specificity is present, with the SMILES string as its value; to_json() of
\* a Saccharide holds "subclass" exactly when subclass is a non-empty string,
\* "subclusters" exactly when the list is non-empty, and always
\* "glycosyltransferases"; no key is written with null or an empty list.
C8_OmitRatherThanNull ==
    /\ (entity.cls = "Glycosyltransferase" /\ json.status = "returned") =>
          GlycosyltransferaseKeys(made.value, json.value)
    /\ (entity.cls = "Saccharide" /\ json.status = "returned") =>
          /\ DOMAIN json.value \subseteq {"glycosyltransferases", "subclass", "subclusters"}
          /\ "glycosyltransferases" \in DOMAIN json.value
          /\ "subclass" \in DOMAIN json.value
                <=> (~IsNone(made.value.subclass) /\ made.value.subclass.s # <<>>)
          /\ "subclusters" \in DOMAIN json.value <=> made.value.subclusters # <<>>
          /\ "subclass" \in DOMAIN json.value =>
                json.value["subclass"] = made.value.subclass
          /\ "subclusters" \in DOMAIN json.value =>
                Len(json.value["subclusters"]) = Len(made.value.subclusters)
          /\ Len(json.value["glycosyltransferases"]) = Len(made.value.glycosyltransferases)
          /\ \A i \in 1 .. Len(made.value.glycosyltransferases) :
                GlycosyltransferaseKeys(made.value.glycosyltransferases[i],
                                        json.value["glycosyltransferases"][i])

\* C8 witness: a Saccharide without subclusters, with subclass "" and a
\* Glycosyltransferase without specificity was written with the single key
\* "glycosyltransferases"
C8_Witness ==
    /\ entity.cls = "Saccharide"
    /\ json.status = "returned"
    /\ made.value.subclusters = <<>>
    /\ made.value.subclass = Str(<<>>)
    /\ \E i \in 1 .. Len(made.value.glycosyltransferases) :
          IsNone(made.value.glycosyltransferases[i].specificity)
    /\ DOMAIN json.value = {"glycosyltransferases"}

\* C9: Smiles(value, validate=False).validate() returns a list: the empty
\* list when value matches the pattern, one error of field "Smiles"
\* otherwise; a validating constructor given an invalid value fails with the
\* aggregate ValidationError.
C9_SmilesErrorsAreData ==
    /\ (entity.cls = "Smiles" /\ checked.status # "not called"
           /\ checked.kwargs = NoKwargs) =>
          /\ checked.status = "returned"
          /\ MatchSmiles(entity.self.value) => checked.value = <<>>
          /\ ~MatchSmiles(entity.self.value) =>
                Len(checked.value) = 1 /\ checked.value[1].field = "Smiles"
    /\ (entity.cls = "Smiles" /\ made.status = "raised") =>
          made.exc = "ValidationError"

\* what the code does for a Smiles: [] for a valid value, ValueError otherwise
SmilesValidateRaises ==
    (entity.cls = "Smiles" /\ checked.status # "not called"
        /\ checked.kwargs = NoKwargs) =>
        IF MatchSmiles(entity.self.value)
        THEN checked = [call |-> "validate", kwargs |-> NoKwargs] @@ Returned(<<>>)
        ELSE checked.status = "raised" /\ checked.exc = "ValueError"

\* the gene ids of a Saccharide, one element for each occurrence
GeneOccurrences(self) ==
    {<<"subcluster", ij[1], ij[2]>> :
        ij \in {x \in (1 .. Len(self.subclusters)) \X (1 .. MaxGenes) :
                   x[2] <= Len(self.subclusters[x[1]].genes)}}
    \cup {<<"glycosyltransferase", i, 0>> : i \in 1 .. Len(self.glycosyltransferases)}

GeneAt(self, occ) ==
    IF occ[1] = "subcluster" THEN self.subclusters[occ[2]].genes[occ[3]]
    ELSE self.glycosyltransferases[occ[2]].gene

\* the errors "not found in record" of validate() are those of the gene
\* occurrences the record does not know
NotFoundErrorsMatch(self, record, errs) ==
    \A id \in {g.inner : g \in GenePool} :
        Cardinality({i \in 1 .. Len(errs) :
                        errs[i].message = MsgGeneNotFound /\ errs[i].args = <<id>>})
        = IF id \in DOMAIN record.cdses THEN 0
          ELSE Cardinality({occ \in GeneOccurrences(self) : GeneAt(self, occ).inner = id})

UnvalidatedSaccharideWithRecord ==
    /\ entity.cls = "Saccharide"
    /\ ~entity.validate
    /\ checked.status # "not called"
    /\ Given(checked.kwargs, "record")

\* C10: for a Saccharide built with validation suppressed,
\* Saccharide.validate(record=R, ...) returns, whatever other keywords are
\* given, a list with one "not found in record" error for each gene
\* occurrence R does not know and none for the others.
C10_RecordReachesEveryGene ==
    UnvalidatedSaccharideWithRecord =>
        /\ checked.status = "returned"
        /\ NotFoundErrorsMatch(entity.self, checked.kwargs["record"], checked.value)

\* what the code does: the same whenever validate() returns, and ValueError
\* when a Smiles of the tree is invalid
RecordReachesEveryGeneUnlessRaised ==
    UnvalidatedSaccharideWithRecord =>
        IF checked.status = "returned"
        THEN NotFoundErrorsMatch(entity.self, checked.kwargs["record"], checked.value)
        ELSE /\ checked.exc = "ValueError"
             /\ \/ \E i \in 1 .. Len(entity.self.subclusters) :
                      ~MatchSmiles(entity.self.subclusters[i].specificity.value)
                \/ \E i \in 1 .. Len(entity.self.glycosyltransferases) :
                      /\ ~IsNone(entity.self.glycosyltransferases[i].specificity)
                      /\ ~MatchSmiles(entity.self.glycosyltransferases[i].specificity.value)

(***************************************************************************)
(* Aggregation of the errors of the children.                              *)
(***************************************************************************)
\* the lists the children of self return from validate(), in the order of
\* the fields of self and of the elements of its lists; the own rules of self
\* stand at the place of the field they are about
ChildResults(self, kwargs) ==
    CASE self.t = "GTEvidence" ->
            <<Returned(IF self.method \notin VALID_METHODS
                       THEN <<ValidationErrorInfo("GTEvidence.method", MsgInvalidMethod,
                                                  <<self.method>>)>>
                       ELSE <<>>),
              Returned(IF self.references = <<>>
                       THEN <<ValidationErrorInfo("Citation", MsgEmptyCitations, <<"None">>)>>
                       ELSE <<>>)>>
            \o [i \in 1 .. Len(self.references) |->
                   Returned(Citation_validate(self.references[i]))]
      [] self.t = "Glycosyltransferase" ->
            <<Returned(GeneId_validate(self.gene, kwargs))>>
            \o [i \in 1 .. Len(self.evidence) |->
                   Returned(GTEvidence_validate(self.evidence[i]))]
            \o (IF IsNone(self.specificity) THEN <<>>
                ELSE <<Smiles_validate(self.specificity)>>)
      [] self.t = "Subcluster" ->
            <<Smiles_validate(self.specificity)>>
            \o [i \in 1 .. Len(self.genes) |->
                   Returned(GeneId_validate(self.genes[i], kwargs))]
            \o <<Returned(IF self.references = <<>>
                          THEN <<ValidationErrorInfo("Citation", MsgEmptyCitations,
                                                     <<"None">>)>>
                          ELSE <<>>)>>
            \o [i \in 1 .. Len(self.references) |->
                   Returned(Citation_validate(self.references[i]))]
      [] self.t = "Saccharide" ->
            [i \in 1 .. Len(self.subclusters) |->
                Subcluster_validate(self.subclusters[i], kwargs)]
            \o [i \in 1 .. Len(self.glycosyltransferases) |->
                   Glycosyltransferase_validate(self.glycosyltransferases[i], kwargs)]

SaccharideComposites == {"GTEvidence", "Glycosyltransferase", "Subcluster", "Saccharide"}

\* validate(**kwargs) was called on a composite of the Saccharide subtree
\* with keywords its signature takes
ValidatedComposite ==
    /\ entity.cls \in SaccharideComposites
    /\ checked.status # "not called"
    /\ entity.cls = "GTEvidence" => checked.kwargs = NoKwargs

\* C11 (on GTEvidence, Glycosyltransferase, Subcluster, Saccharide):
\* validate() returns the concatenation of the own errors of the composite
\* and of the lists its children return, children in the order of the fields
\* and list elements in the order of the list, nothing dropped, duplicated or
\* reordered; the result is empty exactly when every one of these lists is.
C11_OrderedAggregation ==
    ValidatedComposite =>
        /\ checked.status = "returned"
        /\ \A i \in 1 .. Len(ChildResults(entity.self, checked.kwargs)) :
              ChildResults(entity.self, checked.kwargs)[i].status = "returned"
        /\ checked.value =
              Flatten([i \in 1 .. Len(ChildResults(entity.self, checked.kwargs)) |->
                          ChildResults(entity.self, checked.kwargs)[i].value])
        /\ checked.value = <<>> <=>
              \A i \in 1 .. Len(ChildResults(entity.self, checked.kwargs)) :
                  ChildResults(entity.self, checked.kwargs)[i].value = <<>>

\* what the code does in the Saccharide subtree: the concatenation whenever
\* every child returns, and the exception of the first child that raises
AggregationUnlessChildRaises ==
    ValidatedComposite =>
        LET results == ChildResults(entity.self, checked.kwargs)
        IN  IF \A i \in 1 .. Len(results) : results[i].status = "returned"
            THEN /\ checked.status = "returned"
                 /\ checked.value = Flatten([i \in 1 .. Len(results) |-> results[i].value])
            ELSE /\ checked.status = "raised"
                 /\ checked.exc = "ValueError"

AggregationReached ==
    /\ ValidatedComposite
    /\ entity.cls = "Saccharide"
    /\ checked.status = "returned"
    /\ Len(checked.value) >= 3

\* the lists of the children of a composite of the change log family
ChangeLogChildResults(self) ==
    CASE self.t = "ReleaseEntry" ->
            <<IF self.contributors = <<>>
              THEN <<ValidationErrorInfo("contributors",
                                         "contributor list cannot be empty", <<>>)>>
              ELSE <<>>>>
            \o [i \in 1 .. Len(self.contributors) |-> SubmitterID_validate(self.contributors[i])]
            \o [i \in 1 .. Len(self.reviewers) |-> SubmitterID_validate(self.reviewers[i])]
      [] self.t = "Release" ->
            <<ReleaseVersion_validate(self.version),
              IF DateMissing(self)
              THEN <<ValidationErrorInfo("Release", MsgReleaseDate, <<>>)>>
              ELSE <<>>>>
            \o [i \in 1 .. Len(self.entries) |-> ReleaseEntry_validate(self.entries[i])]
      [] self.t = "ChangeLog" ->
            [i \in 1 .. Len(self.releases) |-> Release_validate(self.releases[i])]

\* the part of C11 the code keeps without condition: ReleaseEntry, Release and
\* ChangeLog, whose children never raise
ChangeLogAggregation ==
    (entity.cls \in {"ReleaseEntry", "Release", "ChangeLog"}
        /\ checked.status # "not called") =>
        /\ checked.status = "returned"
        /\ checked.value = Flatten(ChangeLogChildResults(entity.self))
        /\ checked.value = <<>> <=>
              \A i \in 1 .. Len(ChangeLogChildResults(entity.self)) :
                  ChangeLogChildResults(entity.self)[i] = <<>>

====
